---- MODULE Spec2Model ----
(***************************************************************************)
(* Wikipedia MCP server (main.py): thirteen tools, each a thin adapter     *)
(* that validates a one-field input, calls the `wikipedia` client library  *)
(* and either returns a small dict or raises ToolError.                    *)
(*                                                                         *)
(* The hosting layer may run several tool invocations at once; each        *)
(* worker below runs one invocation at a time, and the provider (the       *)
(* `wikipedia` library) answers every call nondeterministically: it        *)
(* returns a value or raises one of its exceptions.                        *)
(***************************************************************************)
EXTENDS Integers, Sequences, FiniteSets, TLC

VARIABLES op, inp, pc, log, calls, exists, outcome

vars == <<op, inp, pc, log, calls, exists, outcome>>

(* Bounds of the provider's answers. *)
MaxOptions == 1
MaxResults == 1

(* Invocations the hosting layer runs side by side. *)
Workers == {"w1", "w2"}

Ops ==
  {"get_summary", "get_content", "get_html", "get_images", "get_links",
   "get_references", "get_categories", "get_url", "get_title", "get_page_id",
   "search_pages", "check_page_exists", "disambiguation_options"}

(* ------------------------------ input schemas -------------------------- *)

(* The value sent for the one required field (`page` or `query`): absent, *)
(* a JSON number, the empty string, or a title.                            *)
Payloads ==
  { [type |-> "missing", val |-> ""],
    [type |-> "int",     val |-> "42"],
    [type |-> "str",     val |-> ""],
    [type |-> "str",     val |-> "Mercury"] }

NoPayload == [type |-> "missing", val |-> ""]

(* Variant: any value that is present is coerced to a string. *)
ValidCoerced(p) == p.type # "missing"

(* `page: str = Field(...)` / `query: str = Field(...)`: the field is      *)
(* required and must be a string; no length constraint is declared.        *)
Valid(p) == p.type = "str"

(* ------------------------------ the provider --------------------------- *)

Candidates == {"Mercury (planet)", "Mercury (element)"}

SeqsUpTo(S, n) == UNION { [1..k -> S] : k \in 0..n }

OptionLists == SeqsUpTo(Candidates, MaxOptions)

ResultLists == SeqsUpTo(Candidates, MaxResults)

PageError ==
  [type |-> "PageError", msg |-> "Page id does not match any pages",
   options |-> <<>>]

DisambiguationError(opts) ==
  [type |-> "DisambiguationError", msg |-> "may refer to", options |-> opts]

HTTPTimeoutError ==
  [type |-> "HTTPTimeoutError", msg |-> "HTTP request timed out",
   options |-> <<>>]

(* Every exception a call into the provider can raise. *)
ProviderExceptions ==
  {PageError, HTTPTimeoutError} \cup { DisambiguationError(o) : o \in OptionLists }

(* The page objects wikipedia.page() can hand back. *)
ProviderPages ==
  { [title |-> "Mercury (planet)",
     url |-> "https://en.wikipedia.org/wiki/Mercury_(planet)",
     pageid |-> "19694",
     content |-> "Mercury is the first planet from the Sun.",
     images |-> <<"Mercury_in_true_color.jpg">>,
     links |-> <<"Sun", "Venus">>,
     references |-> <<>>,
     categories |-> <<"Planets of the Solar System">>],
    [title |-> "Mercury (element)",
     url |-> "https://en.wikipedia.org/wiki/Mercury_(element)",
     pageid |-> "18617142",
     content |-> "",
     images |-> <<>>,
     links |-> <<"Cinnabar">>,
     references |-> <<"https://doi.org/10.1351/pac200375081107">>,
     categories |-> <<"Chemical elements", "Transition metals">>] }

(* The texts wikipedia.summary() can hand back; a page without lead text   *)
(* has the empty extract.                                                  *)
Summaries == {"", "Mercury is the first planet from the Sun."}

Returned(v) == [kind |-> "return", value |-> v]

Raised(e) == [kind |-> "raise", exc |-> e]

(* What the first provider call of an operation can answer. *)
FirstResponses(o) ==
  { Raised(e) : e \in ProviderExceptions } \cup
  { Returned(v) : v \in (IF o = "get_summary" THEN Summaries
                         ELSE IF o = "search_pages" THEN ResultLists
                         ELSE ProviderPages) }

(* Reading an attribute of the page object: its value, or a failure of    *)
(* the request behind a lazily loaded attribute.                           *)
AttrResponses(page, attr) == {Returned(page[attr]), Raised(HTTPTimeoutError)}

(* page.html(): the rendered text, or a failure of the request. *)
HtmlResponses(page) ==
  {Returned("<p>" \o page.title \o "</p>"), Raised(HTTPTimeoutError)}

(* ------------------------------ outcomes ------------------------------- *)

NoOutcome == [kind |-> "none"]

ValidationError == [kind |-> "ValidationError"]

UnboundLocalError == [kind |-> "UnboundLocalError"]

Result(d) == [kind |-> "result", result |-> d]

(* str(e) *)
Str(e) == e.msg

ToolError(message) == [kind |-> "ToolError", message |-> message]

(* A handler's position after the answers received so far. *)
Goto(p) == [pc |-> p, outcome |-> NoOutcome]

Done(out) == [pc |-> "done", outcome |-> out]

(* ------------------------------ the tools ------------------------------ *)
(* Each tool is given the provider answers its invocation has received so  *)
(* far (at least one) and says where the handler stands after the last.    *)

get_summary(lg) ==
  IF lg[1].kind = "raise"
  THEN Done(ToolError("Summary error: " \o Str(lg[1].exc)))
  ELSE Done(Result("summary" :> lg[1].value))

(* The shape shared by the tools that return one attribute of the page:    *)
(* wikipedia.page(input.page).<attr> inside try / except Exception.        *)
PageAttribute(lg, key, label) ==
  IF lg[1].kind = "raise" THEN Done(ToolError(label \o Str(lg[1].exc)))
  ELSE IF Len(lg) = 1 THEN Goto("attr")
  ELSE IF lg[2].kind = "raise" THEN Done(ToolError(label \o Str(lg[2].exc)))
  ELSE Done(Result(key :> lg[2].value))

get_content(lg) == PageAttribute(lg, "content", "Content error: ")

(* Variant: the html is taken from the lookup, without the render call. *)
get_html_no_render(lg) ==
  IF lg[1].kind = "raise" THEN Done(ToolError("HTML error: " \o Str(lg[1].exc)))
  ELSE Done(Result("html" :> lg[1].value.content))

get_html(lg) ==
  IF lg[1].kind = "raise" THEN Done(ToolError("HTML error: " \o Str(lg[1].exc)))
  ELSE IF Len(lg) = 1 THEN Goto("html")
  ELSE IF lg[2].kind = "raise" THEN Done(ToolError("HTML error: " \o Str(lg[2].exc)))
  ELSE Done(Result("html" :> lg[2].value))

get_images(lg) == PageAttribute(lg, "images", "Images error: ")

get_links(lg) == PageAttribute(lg, "links", "Links error: ")

(* Variant: the handler copied from get_links keeps its label. *)
get_references_links_label(lg) == PageAttribute(lg, "references", "Links error: ")

get_references(lg) == PageAttribute(lg, "references", "References error: ")

get_categories(lg) == PageAttribute(lg, "categories", "Categories error: ")

get_url(lg) == PageAttribute(lg, "url", "URL error: ")

get_title(lg) == PageAttribute(lg, "title", "Title error: ")

get_page_id(lg) == PageAttribute(lg, "page_id", "Page ID error: ")

(* Variant: an empty search is reported as an error. *)
search_pages_empty_is_error(lg) ==
  IF lg[1].kind = "raise"
  THEN Done(ToolError("Search error: " \o Str(lg[1].exc)))
  ELSE IF lg[1].value = <<>> THEN Done(ToolError("Search error: no results"))
  ELSE Done(Result("results" :> lg[1].value))

search_pages(lg) ==
  IF lg[1].kind = "raise"
  THEN Done(ToolError("Search error: " \o Str(lg[1].exc)))
  ELSE Done(Result("results" :> lg[1].value))

(* Variant: every exception of the lookup counts as "not found". *)
check_page_exists_any_is_false(lg, ex) ==
  LET r == lg[Len(lg)] IN
  IF r.kind = "return" THEN [pc |-> "ret", outcome |-> NoOutcome, exists |-> ex]
  ELSE [pc |-> "ret", outcome |-> NoOutcome, exists |-> "False"]

(* Variant: an ambiguous title counts as an existing page. *)
check_page_exists_ambiguous_is_true(lg, ex) ==
  LET r == lg[Len(lg)] IN
  IF r.kind = "return" THEN [pc |-> "ret", outcome |-> NoOutcome, exists |-> ex]
  ELSE IF r.exc.type = "PageError"
  THEN [pc |-> "ret", outcome |-> NoOutcome, exists |-> "False"]
  ELSE IF r.exc.type = "DisambiguationError"
  THEN [pc |-> "ret", outcome |-> NoOutcome, exists |-> ex]
  ELSE [pc |-> "done",
        outcome |-> ToolError("Existence check error: " \o Str(r.exc)),
        exists |-> ex]

(* Variant: a failed lookup, other than "not found", is tried once more. *)
check_page_exists_retry(lg, ex) ==
  LET r == lg[Len(lg)] IN
  IF r.kind = "return" THEN [pc |-> "ret", outcome |-> NoOutcome, exists |-> ex]
  ELSE IF r.exc.type = "PageError"
  THEN [pc |-> "ret", outcome |-> NoOutcome, exists |-> "False"]
  ELSE IF Len(lg) < 2
  THEN [pc |-> "call", outcome |-> NoOutcome, exists |-> ex]
  ELSE [pc |-> "done",
        outcome |-> ToolError("Existence check error: " \o Str(r.exc)),
        exists |-> ex]

(* `ex` is the local `exists` as set before the lookup; the field `exists` *)
(* of the answer is the local afterwards.                                  *)
check_page_exists(lg, ex) ==
  LET r == lg[Len(lg)] IN
  IF r.kind = "return" THEN [pc |-> "ret", outcome |-> NoOutcome, exists |-> ex]
  ELSE IF r.exc.type = "PageError"
  THEN [pc |-> "ret", outcome |-> NoOutcome, exists |-> "False"]
  ELSE [pc |-> "done",
        outcome |-> ToolError("Existence check error: " \o Str(r.exc)),
        exists |-> ex]

(* Variant: the candidates of the exception are dropped. *)
disambiguation_options_no_candidates(lg) ==
  IF lg[1].kind = "return"
  THEN Done(Result([disambiguation |-> FALSE, options |-> <<>>]))
  ELSE IF lg[1].exc.type = "DisambiguationError"
  THEN Done(Result([disambiguation |-> TRUE, options |-> <<>>]))
  ELSE Done(ToolError("Disambiguation check error: " \o Str(lg[1].exc)))

disambiguation_options(lg) ==
  IF lg[1].kind = "return"
  THEN Done(Result([disambiguation |-> FALSE, options |-> <<>>]))
  ELSE IF lg[1].exc.type = "DisambiguationError"
  THEN Done(Result([disambiguation |-> TRUE, options |-> lg[1].exc.options]))
  ELSE Done(ToolError("Disambiguation check error: " \o Str(lg[1].exc)))

(* Variant: get_page_id reads the title of the page. *)
AttrPageIdIsTitle(o) ==
  CASE o = "get_content"    -> "content"
    [] o = "get_images"     -> "images"
    [] o = "get_links"      -> "links"
    [] o = "get_references" -> "references"
    [] o = "get_categories" -> "categories"
    [] o = "get_url"        -> "url"
    [] o = "get_title"      -> "title"
    [] o = "get_page_id"    -> "title"

(* The attribute of the page object each tool reads. *)
Attr(o) ==
  CASE o = "get_content"    -> "content"
    [] o = "get_images"     -> "images"
    [] o = "get_links"      -> "links"
    [] o = "get_references" -> "references"
    [] o = "get_categories" -> "categories"
    [] o = "get_url"        -> "url"
    [] o = "get_title"      -> "title"
    [] o = "get_page_id"    -> "pageid"

(* The registered tool of that name, run on the answers received. *)
Tool(o, lg) ==
  CASE o = "get_summary"            -> get_summary(lg)
    [] o = "get_content"            -> get_content(lg)
    [] o = "get_html"               -> get_html(lg)
    [] o = "get_images"             -> get_images(lg)
    [] o = "get_links"              -> get_links(lg)
    [] o = "get_references"         -> get_references(lg)
    [] o = "get_categories"         -> get_categories(lg)
    [] o = "get_url"                -> get_url(lg)
    [] o = "get_title"              -> get_title(lg)
    [] o = "get_page_id"            -> get_page_id(lg)
    [] o = "search_pages"           -> search_pages(lg)
    [] o = "disambiguation_options" -> disambiguation_options(lg)

Handler(o, lg, ex) ==
  IF o = "check_page_exists" THEN check_page_exists(lg, ex)
  ELSE [pc |-> Tool(o, lg).pc, outcome |-> Tool(o, lg).outcome, exists |-> ex]

(* Variant: `exists` is one module-level variable. *)
ExistsSlotShared(w) == "w1"

(* The cell holding an invocation's local `exists`: one per invocation. *)
ExistsSlot(w) == w

(* ------------------------------ state machine -------------------------- *)

Init ==
  /\ op = [w \in Workers |-> "none"]
  /\ inp = [w \in Workers |-> NoPayload]
  /\ pc = [w \in Workers |-> "idle"]
  /\ log = [w \in Workers |-> <<>>]
  /\ calls = [w \in Workers |-> 0]
  /\ exists = [w \in Workers |-> "unbound"]
  /\ outcome = [w \in Workers |-> NoOutcome]

(* A tool call arrives: the input is validated against the schema and, if  *)
(* valid, the tool body is entered (check_page_exists sets exists = True). *)
Begin(w) ==
  /\ pc[w] = "idle"
  /\ \E o \in Ops, p \in Payloads :
       /\ op' = [op EXCEPT ![w] = o]
       /\ inp' = [inp EXCEPT ![w] = p]
       /\ IF Valid(p)
          THEN /\ pc' = [pc EXCEPT ![w] = "call"]
               /\ outcome' = outcome
               /\ exists' = IF o = "check_page_exists"
                            THEN [exists EXCEPT ![ExistsSlot(w)] = "True"]
                            ELSE exists
          ELSE /\ pc' = [pc EXCEPT ![w] = "done"]
               /\ outcome' = [outcome EXCEPT ![w] = ValidationError]
               /\ exists' = exists
  /\ UNCHANGED <<log, calls>>

(* The handler moves on after a provider answer r. *)
Answer(w, r) ==
  LET lg == Append(log[w], r)
      f == Handler(op[w], lg, exists[ExistsSlot(w)])
  IN /\ log' = [log EXCEPT ![w] = lg]
     /\ pc' = [pc EXCEPT ![w] = f.pc]
     /\ outcome' = [outcome EXCEPT ![w] = f.outcome]
     /\ exists' = IF op[w] = "check_page_exists"
                  THEN [exists EXCEPT ![ExistsSlot(w)] = f.exists]
                  ELSE exists
     /\ UNCHANGED <<op, inp>>

(* wikipedia.summary(...), wikipedia.page(...) or wikipedia.search(...). *)
Call(w) ==
  /\ pc[w] = "call"
  /\ calls' = [calls EXCEPT ![w] = @ + 1]
  /\ \E r \in FirstResponses(op[w]) : Answer(w, r)

(* .content, .images, ... of the page object just looked up. *)
ReadAttr(w) ==
  /\ pc[w] = "attr"
  /\ calls' = calls
  /\ \E r \in AttrResponses(log[w][1].value, Attr(op[w])) : Answer(w, r)

(* .html() of the page object just looked up. *)
Render(w) ==
  /\ pc[w] = "html"
  /\ calls' = [calls EXCEPT ![w] = @ + 1]
  /\ \E r \in HtmlResponses(log[w][1].value) : Answer(w, r)

(* return {"exists": exists} *)
Return(w) ==
  /\ pc[w] = "ret"
  /\ pc' = [pc EXCEPT ![w] = "done"]
  /\ outcome' = [outcome EXCEPT ![w] =
                   IF exists[ExistsSlot(w)] = "unbound" THEN UnboundLocalError
                   ELSE Result("exists" :> (exists[ExistsSlot(w)] = "True"))]
  /\ UNCHANGED <<op, inp, log, calls, exists>>

(* The result or error goes back to the caller; nothing of the invocation  *)
(* is kept.                                                                *)
Deliver(w) ==
  /\ pc[w] = "done"
  /\ op' = [op EXCEPT ![w] = "none"]
  /\ inp' = [inp EXCEPT ![w] = NoPayload]
  /\ pc' = [pc EXCEPT ![w] = "idle"]
  /\ log' = [log EXCEPT ![w] = <<>>]
  /\ calls' = [calls EXCEPT ![w] = 0]
  /\ outcome' = [outcome EXCEPT ![w] = NoOutcome]
  /\ exists' = IF op[w] = "check_page_exists" /\ Valid(inp[w])
               THEN [exists EXCEPT ![ExistsSlot(w)] = "unbound"]
               ELSE exists

Next ==
  \E w \in Workers :
    \/ Begin(w)
    \/ Call(w)
    \/ ReadAttr(w)
    \/ Render(w)
    \/ Return(w)
    \/ Deliver(w)

Spec == Init /\ [][Next]_vars

(* ------------------------------ properties ----------------------------- *)

(* An invocation that has ended (result or error not yet handed back). *)
Finished(w) == pc[w] = "done"

(* A finished invocation of tool o whose input passed validation. *)
Ran(w, o) == Finished(w) /\ op[w] = o /\ log[w] # <<>>

HasRaised(lg) == \E k \in 1..Len(lg) : lg[k].kind = "raise"

RaisedType(lg, t) ==
  \E k \in 1..Len(lg) : lg[k].kind = "raise" /\ lg[k].exc.type = t

IsToolError(w) == outcome[w].kind = "ToolError"

(* C1: check_page_exists returns {exists: false} if and only if the page   *)
(* lookup raised PageError; a lookup that completes gives {exists: true};  *)
(* any other exception ends the call with a ToolError.                     *)
C1_ExistsFalseIffPageError ==
  \A w \in Workers :
    Ran(w, "check_page_exists") =>
      LET r == log[w][1] IN
      /\ (outcome[w] = Result("exists" :> FALSE))
           <=> (r.kind = "raise" /\ r.exc.type = "PageError")
      /\ r.kind = "return" => outcome[w] = Result("exists" :> TRUE)
      /\ (r.kind = "raise" /\ r.exc.type # "PageError") => IsToolError(w)

C1_Witness ==
  \E w \in Workers :
    /\ Ran(w, "check_page_exists")
    /\ log[w][1] = Raised(PageError)
    /\ outcome[w] = Result("exists" :> FALSE)

(* C2 as stated: disambiguation_options returns {disambiguation: true,     *)
(* options: L} with L non-empty if and only if the lookup raised           *)
(* DisambiguationError, L being its candidates; a lookup that completes    *)
(* gives {disambiguation: false, options: []}.                             *)
C2_NonEmptyOptionsIffAmbiguous ==
  \A w \in Workers :
    Ran(w, "disambiguation_options") =>
      LET r == log[w][1] IN
      /\ (r.kind = "raise" /\ r.exc.type = "DisambiguationError")
           <=> /\ outcome[w].kind = "result"
               /\ outcome[w].result.disambiguation
               /\ Len(outcome[w].result.options) > 0
               /\ r.kind = "raise"
               /\ outcome[w].result.options = r.exc.options
      /\ r.kind = "return" =>
           outcome[w] = Result([disambiguation |-> FALSE, options |-> <<>>])

(* C2 amended: disambiguation_options returns {disambiguation: true,       *)
(* options: L} if and only if the lookup raised DisambiguationError, and   *)
(* L is exactly the candidate list that exception carries, empty or not;   *)
(* a lookup that completes gives {disambiguation: false, options: []}.     *)
C2_OptionsIffAmbiguous ==
  \A w \in Workers :
    Ran(w, "disambiguation_options") =>
      LET r == log[w][1] IN
      /\ (r.kind = "raise" /\ r.exc.type = "DisambiguationError")
           <=> (outcome[w].kind = "result" /\ outcome[w].result.disambiguation)
      /\ (r.kind = "raise" /\ r.exc.type = "DisambiguationError") =>
           outcome[w] = Result([disambiguation |-> TRUE, options |-> r.exc.options])
      /\ r.kind = "return" =>
           outcome[w] = Result([disambiguation |-> FALSE, options |-> <<>>])

C2_Witness ==
  \E w \in Workers :
    /\ Ran(w, "disambiguation_options")
    /\ log[w][1].kind = "raise"
    /\ log[w][1].exc.type = "DisambiguationError"
    /\ Len(log[w][1].exc.options) > 0
    /\ outcome[w].kind = "result"
    /\ outcome[w].result.options = log[w][1].exc.options

(* The domain label each tool puts before the provider's message. *)
DomainLabel(o) ==
  CASE o = "get_summary"            -> "Summary error"
    [] o = "get_content"            -> "Content error"
    [] o = "get_html"               -> "HTML error"
    [] o = "get_images"             -> "Images error"
    [] o = "get_links"              -> "Links error"
    [] o = "get_references"         -> "References error"
    [] o = "get_categories"         -> "Categories error"
    [] o = "get_url"                -> "URL error"
    [] o = "get_title"              -> "Title error"
    [] o = "get_page_id"            -> "Page ID error"
    [] o = "search_pages"           -> "Search error"
    [] o = "check_page_exists"      -> "Existence check error"
    [] o = "disambiguation_options" -> "Disambiguation check error"

(* The two conditions a tool turns into a result of its own. *)
LocallyRecovered(o, e) ==
  \/ o = "check_page_exists" /\ e.type = "PageError"
  \/ o = "disambiguation_options" /\ e.type = "DisambiguationError"

(* C3: in each of the 13 tools a provider exception other than the two     *)
(* locally recovered conditions ends the call with a ToolError whose       *)
(* message is the tool's own label, ": " and the provider's message; no    *)
(* other kind of exception leaves a tool and no result is returned.        *)
C3_UniformToolError ==
  \A w \in Workers :
    Finished(w) =>
      /\ outcome[w].kind \in {"result", "ToolError", "ValidationError"}
      /\ log[w] # <<>> =>
           LET r == log[w][Len(log[w])] IN
           (r.kind = "raise" /\ ~LocallyRecovered(op[w], r.exc)) =>
             outcome[w] = [kind |-> "ToolError",
                           message |-> DomainLabel(op[w]) \o ": " \o r.exc.msg]
      /\ \A v \in Workers :
           (Finished(v) /\ IsToolError(w) /\ IsToolError(v) /\ op[v] # op[w])
             => outcome[v].message # outcome[w].message

C3_Witness ==
  \E w \in Workers :
    /\ Ran(w, "search_pages")
    /\ log[w][1] = Raised(HTTPTimeoutError)
    /\ outcome[w] = [kind |-> "ToolError",
                     message |-> "Search error: HTTP request timed out"]

(* C4: only check_page_exists turns PageError into a result and only       *)
(* disambiguation_options turns DisambiguationError into one; in every     *)
(* other tool, and crosswise in these two, both end with a ToolError.      *)
C4_RecoveryIsExclusive ==
  \A w \in Workers :
    (Finished(w) /\ log[w] # <<>>) =>
      /\ (RaisedType(log[w], "PageError") /\ op[w] # "check_page_exists")
           => IsToolError(w)
      /\ (RaisedType(log[w], "DisambiguationError")
            /\ op[w] # "disambiguation_options") => IsToolError(w)
      /\ (HasRaised(log[w]) /\ outcome[w].kind = "result") =>
           \/ op[w] = "check_page_exists" /\ RaisedType(log[w], "PageError")
           \/ op[w] = "disambiguation_options"
                /\ RaisedType(log[w], "DisambiguationError")

C4_Witness ==
  \E w, v \in Workers :
    /\ Ran(w, "check_page_exists")
    /\ RaisedType(log[w], "DisambiguationError")
    /\ IsToolError(w)
    /\ Ran(v, "disambiguation_options")
    /\ RaisedType(log[v], "PageError")
    /\ IsToolError(v)

(* The field is present and holds a string (of any length). *)
IsString(p) == p.type = "str"

(* The field is present and holds a non-empty string. *)
IsNonEmptyString(p) == p.type = "str" /\ p.val # ""

(* C5 as stated: an invocation whose field is missing or is not a          *)
(* non-empty string makes no provider call.                                *)
C5_NoCallUnlessNonEmptyString ==
  \A w \in Workers :
    (pc[w] # "idle" /\ ~IsNonEmptyString(inp[w])) =>
      calls[w] = 0 /\ log[w] = <<>>

(* C5 amended: an invocation whose field is missing or is not a string     *)
(* fails validation and makes no provider call, so every provider call is  *)
(* preceded by the successful validation of its invocation's input; the    *)
(* empty string is a string and passes.                                    *)
C5_NoCallUnlessString ==
  \A w \in Workers :
    pc[w] # "idle" =>
      /\ ~IsString(inp[w]) =>
           /\ pc[w] = "done"
           /\ outcome[w] = ValidationError
           /\ calls[w] = 0
           /\ log[w] = <<>>
      /\ IsString(inp[w]) => outcome[w] # ValidationError
      /\ (calls[w] > 0 \/ log[w] # <<>>) => IsString(inp[w])

C5_Witness ==
  \E w, v \in Workers :
    /\ Finished(w) /\ inp[w].type = "int"
    /\ outcome[w] = ValidationError /\ calls[w] = 0
    /\ Finished(v) /\ inp[v].type = "missing"
    /\ outcome[v] = ValidationError /\ calls[v] = 0

(* C6: when the provider's search completes, search_pages returns          *)
(* {results: R} with R the provider's sequence unchanged; with no matches  *)
(* that is {results: []} and not an error.                                 *)
C6_SearchResultsUnmodified ==
  \A w \in Workers :
    (Ran(w, "search_pages") /\ log[w][1].kind = "return") =>
      /\ outcome[w] = Result("results" :> log[w][1].value)
      /\ log[w][1].value = <<>> => outcome[w] = Result([results |-> <<>>])

C6_Witness ==
  \E w \in Workers :
    /\ Ran(w, "search_pages")
    /\ log[w][1] = Returned(<<>>)
    /\ outcome[w] = Result([results |-> <<>>])

IdentityOps == {"get_title", "get_url", "get_page_id"}

(* A finished get_title / get_url / get_page_id whose page was found and   *)
(* whose attribute was read.                                               *)
Resolved(w) ==
  /\ Finished(w)
  /\ op[w] \in IdentityOps
  /\ Len(log[w]) = 2
  /\ log[w][2].kind = "return"

Summarised(w) == Ran(w, "get_summary") /\ log[w][1].kind = "return"

(* The one value a successful result carries. *)
ResultValue(w) ==
  CASE op[w] = "get_title"   -> outcome[w].result.title
    [] op[w] = "get_url"     -> outcome[w].result.url
    [] op[w] = "get_page_id" -> outcome[w].result.page_id
    [] op[w] = "get_summary" -> outcome[w].result.summary

(* Two invocations of one tool for one title that the provider answered    *)
(* alike end alike, and title, url and page id are those of the page the   *)
(* lookup resolved to.                                                     *)
SameAnswersSameResult ==
  /\ \A w, v \in Workers :
       (Finished(w) /\ Finished(v) /\ op[w] = op[v]
          /\ op[w] \in IdentityOps \cup {"get_summary"}
          /\ inp[w] = inp[v] /\ log[w] = log[v])
         => outcome[w] = outcome[v]
  /\ \A w \in Workers :
       Resolved(w) =>
         /\ outcome[w].kind = "result"
         /\ \E page \in ProviderPages :
              /\ log[w][1] = Returned(page)
              /\ ResultValue(w) =
                   (CASE op[w] = "get_title"   -> page.title
                      [] op[w] = "get_url"     -> page.url
                      [] op[w] = "get_page_id" -> page.pageid)
  /\ \A w \in Workers :
       Summarised(w) =>
         outcome[w].kind = "result" /\ ResultValue(w) = log[w][1].value

(* C7 as stated: repeated get_title / get_url / get_page_id for one title  *)
(* give the same value, the values are those of one resolved page, and     *)
(* they and get_summary's are non-empty.                                   *)
C7_SameNonEmptyValues ==
  /\ SameAnswersSameResult
  /\ \A w \in Workers :
       ((Resolved(w) \/ Summarised(w)) /\ IsNonEmptyString(inp[w]))
         => ResultValue(w) # ""

(* C7 amended: with a provider that answers alike, repeated get_title /    *)
(* get_url / get_page_id for one title give the same value, each exactly   *)
(* the field of the page the lookup resolved to, and get_summary gives     *)
(* exactly the provider's summary text, which may be empty; nothing        *)
(* depends on earlier invocations.                                         *)
C7_SameProviderValues ==
  /\ SameAnswersSameResult
  /\ \A w \in Workers :
       pc[w] = "idle" =>
         /\ op[w] = "none" /\ log[w] = <<>> /\ calls[w] = 0
         /\ outcome[w] = NoOutcome /\ inp[w] = NoPayload

C7_Witness ==
  \E w, v \in Workers :
    /\ w # v
    /\ Resolved(w) /\ Resolved(v)
    /\ op[w] = "get_title" /\ op[v] = "get_title"
    /\ inp[w] = inp[v] /\ log[w] = log[v]
    /\ outcome[w] = Result([title |-> "Mercury (planet)"])
    /\ outcome[v] = outcome[w]

(* C8 as stated: every invocation makes exactly one provider call, except  *)
(* check_page_exists and disambiguation_options, which make two.           *)
C8_OneCallTwoForChecks ==
  \A w \in Workers :
    (Finished(w) /\ IsNonEmptyString(inp[w])) =>
      calls[w] = (IF op[w] \in {"check_page_exists", "disambiguation_options"}
                  THEN 2 ELSE 1)

(* C8 amended: every invocation whose input passes validation makes        *)
(* exactly one provider call, check_page_exists and disambiguation_options *)
(* included, except get_html, which makes two when its lookup succeeds     *)
(* (the lookup, then the render) and one when the lookup fails; reading an *)
(* attribute of the page object is not a call.  An invocation that fails   *)
(* validation makes none.                                                  *)
C8_OneCallTwoForRender ==
  \A w \in Workers :
    Finished(w) =>
      calls[w] = (IF ~IsString(inp[w]) THEN 0
                  ELSE IF op[w] = "get_html" /\ log[w][1].kind = "return" THEN 2
                  ELSE 1)

C8_Witness ==
  \E w, v \in Workers :
    /\ Ran(w, "get_html") /\ outcome[w].kind = "result" /\ calls[w] = 2
    /\ Ran(v, "check_page_exists") /\ outcome[v].kind = "result" /\ calls[v] = 1

(* One step of the system, seen from invocation w. *)
FirstFailureIsFinal(w) ==
  /\ (HasRaised(log[w]) /\ pc'[w] # "idle") =>
       log'[w] = log[w] /\ calls'[w] = calls[w]
  /\ (pc[w] = "done" /\ pc'[w] # "idle") =>
       pc'[w] = "done" /\ outcome'[w] = outcome[w]
  /\ (pc'[w] = "done" /\ HasRaised(log'[w])) =>
       LET e == log'[w][Len(log'[w])].exc IN
       \/ outcome'[w].kind = "ToolError"
       \/ /\ op'[w] = "check_page_exists" /\ e.type = "PageError"
          /\ outcome'[w] = Result("exists" :> FALSE)
       \/ /\ op'[w] = "disambiguation_options" /\ e.type = "DisambiguationError"
          /\ outcome'[w] = Result([disambiguation |-> TRUE, options |-> e.options])

(* C9: once a provider call of an invocation has raised, the invocation    *)
(* makes no further provider call (no retry, no render after a failed      *)
(* lookup) and ends with exactly one outcome: a ToolError or, for the two  *)
(* recovered conditions, the result built for them.                        *)
C9_FirstFailureIsFinal == [][\A w \in Workers : FirstFailureIsFinal(w)]_vars

C9_Witness ==
  \E w, v \in Workers :
    /\ Ran(w, "get_html") /\ HasRaised(log[w]) /\ Len(log[w]) = 1
    /\ calls[w] = 1 /\ IsToolError(w)
    /\ Ran(v, "check_page_exists") /\ RaisedType(log[v], "PageError")
    /\ calls[v] = 1 /\ outcome[v] = Result("exists" :> FALSE)

(* The outcome of tool o on input p when it runs with no other invocation  *)
(* around and the provider gives the answers lg.                           *)
Alone(o, p, lg) ==
  IF ~IsString(p) THEN ValidationError
  ELSE IF o = "check_page_exists"
  THEN LET f == check_page_exists(lg, "True") IN
       IF f.pc = "done" THEN f.outcome
       ELSE Result("exists" :> (f.exists = "True"))
  ELSE Tool(o, lg).outcome

(* C10: under every interleaving each invocation ends as it would running  *)
(* alone with the same provider answers; the local `exists` of one         *)
(* check_page_exists is never seen by another invocation.                  *)
C10_NoInterference ==
  \A w \in Workers :
    /\ Finished(w) => outcome[w] = Alone(op[w], inp[w], log[w])
    /\ (pc[w] = "ret" /\ op[w] = "check_page_exists") =>
         exists[w] = (IF log[w][1].kind = "return" THEN "True" ELSE "False")
    /\ (pc[w] = "idle" \/ op[w] # "check_page_exists") => exists[w] = "unbound"

C10_Witness ==
  \E w, v \in Workers :
    /\ Ran(w, "check_page_exists") /\ outcome[w] = Result("exists" :> TRUE)
    /\ Ran(v, "check_page_exists") /\ outcome[v] = Result("exists" :> FALSE)

====
